---- MODULE Spec2Model ----
(***************************************************************************)
(* A model of gem_bot.py: the month-end resampler, the trailing return,    *)
(* the momentum score, the ranking of the risk assets, the risk-off        *)
(* decision and the control flow of main() around them.                    *)
(*                                                                         *)
(* Numbers.  Prices are integers.  A float computed by the program is a    *)
(* record [k, n, d]: k = "fin" is the rational n/d in lowest terms with    *)
(* d > 0, k = "nan" is IEEE NaN, k = "inf" is +infinity (n = 1) or         *)
(* -infinity (n = -1).  Arithmetic and comparison follow IEEE 754 for      *)
(* NaN and the infinities; rounding of finite results is not modelled.     *)
(***************************************************************************)
EXTENDS Integers, Sequences, FiniteSets, TLC

VARIABLES
    pc,            \* where main() is, or the function called on its own
    env,           \* the environment variables main() reads (lines 94-97)
    tickers,       \* main.tickers: the dict's keys in order, each with its symbol
    risk_assets,   \* main.risk_assets
    bonds_name,    \* main.bonds_name
    threshold,     \* main.threshold
    fetched,       \* the downloads made so far and how each ended
    monthly,       \* main.monthly
    last_me_date,  \* main.last_me_date
    details,       \* main.details
    ranked,        \* main.ranked
    choice,        \* main.choice
    regime,        \* main.reason: its branch, asset and percentages
    report,        \* gem_message.txt: <<>> until written, then <<msg>>
    exit_code,     \* the exit status, -1 while running
    arg,           \* the arguments of a function called on its own
    res            \* its return value, <<>> until it returned

vars == <<pc, env, tickers, risk_assets, bonds_name, threshold,
          fetched, monthly, last_me_date, details, ranked, choice, regime,
          report, exit_code, arg, res>>

mainVars == <<env, tickers, risk_assets, bonds_name, threshold,
              fetched, monthly, last_me_date, details, ranked, choice, regime,
              report, exit_code>>

----------------------------------------------------------------------------
(* Floats *)

Abs(x) == IF x < 0 THEN 0 - x ELSE x

RECURSIVE GCD(_, _)
GCD(a, b) == IF b = 0 THEN a ELSE GCD(b, a % b)

NaN == [k |-> "nan", n |-> 0, d |-> 1]
PosInf == [k |-> "inf", n |-> 1, d |-> 1]
NegInf == [k |-> "inf", n |-> 0 - 1, d |-> 1]

\* The rational n/d (d # 0) in lowest terms with a positive denominator.
Fin(n, d) ==
    LET g == GCD(Abs(n), Abs(d))
        s == IF d < 0 THEN 0 - 1 ELSE 1
    IN  [k |-> "fin", n |-> (s * n) \div g, d |-> (s * d) \div g]

IsNaN(x) == x.k = "nan"
IsInf(x) == x.k = "inf"
IsFinite(x) == x.k = "fin"

\* float division of two prices: x/0 is +-inf, 0/0 is NaN (numpy float64)
FDiv(e, s) ==
    IF s # 0 THEN Fin(e, s)
    ELSE IF e > 0 THEN PosInf
    ELSE IF e < 0 THEN NegInf
    ELSE NaN

\* x - 1.0
FSub1(x) == IF IsFinite(x) THEN Fin(x.n - x.d, x.d) ELSE x

\* 0.5 * x
FHalf(x) == IF IsFinite(x) THEN Fin(x.n, 2 * x.d) ELSE x

\* x + y
FAdd(x, y) ==
    IF IsNaN(x) \/ IsNaN(y) THEN NaN
    ELSE IF IsInf(x) /\ IsInf(y) THEN (IF x.n = y.n THEN x ELSE NaN)
    ELSE IF IsInf(x) THEN x
    ELSE IF IsInf(y) THEN y
    ELSE Fin(x.n * y.d + y.n * x.d, x.d * y.d)

\* x < y; every comparison with NaN is false
FLt(x, y) ==
    IF IsNaN(x) \/ IsNaN(y) THEN FALSE
    ELSE IF IsInf(x) THEN x.n < 0 /\ ~(IsInf(y) /\ y.n < 0)
    ELSE IF IsInf(y) THEN y.n > 0
    ELSE x.n * y.d < y.n * x.d

\* x <= y; every comparison with NaN is false
FLe(x, y) ==
    IF IsNaN(x) \/ IsNaN(y) THEN FALSE
    ELSE x = y \/ FLt(x, y)

----------------------------------------------------------------------------
(* Dates and price series.  A date is [ym, day]: ym counts calendar months, *)
(* day is the day of the month.  An observation is [date, price, isna];     *)
(* isna marks a missing price.                                              *)

\* the last calendar day of month ym, the label resample('ME') gives its bin
MonthEndDay(ym) == IF ym % 2 = 1 THEN 31 ELSE 30

Date(ym, day) == [ym |-> ym, day |-> day]
DateLt(a, b) == a.ym < b.ym \/ (a.ym = b.ym /\ a.day < b.day)

Obs(date, price) == [date |-> date, price |-> price, isna |-> FALSE]
Missing(date) == [date |-> date, price |-> 0, isna |-> TRUE]

\* Series.dropna()
DropNa(s) == SelectSeq(s, LAMBDA o : ~o.isna)

\* insert o after every element whose date is not later: a stable insertion
RECURSIVE InsertByDate(_, _)
InsertByDate(sorted, o) ==
    IF sorted = <<>> THEN <<o>>
    ELSE IF DateLt(o.date, sorted[Len(sorted)].date)
         THEN Append(InsertByDate(SubSeq(sorted, 1, Len(sorted) - 1), o),
                     sorted[Len(sorted)])
         ELSE Append(sorted, o)

\* resample() sorts a non-monotonic index with a stable sort
RECURSIVE SortByDate(_)
SortByDate(s) ==
    IF s = <<>> THEN <<>>
    ELSE InsertByDate(SortByDate(SubSeq(s, 1, Len(s) - 1)), s[Len(s)])

\* the bins with .first() for .last()
MonthBinsFirst(s) ==
    LET first == s[1].date.ym
        last == s[Len(s)].date.ym
    IN  [i \in 1..(last - first + 1) |->
            LET ym == first + i - 1
                inbin == SelectSeq(s, LAMBDA o : o.date.ym = ym)
            IN  IF inbin = <<>> THEN Missing(Date(ym, MonthEndDay(ym)))
                ELSE Obs(Date(ym, MonthEndDay(ym)), inbin[1].price)]

\* resample('ME').last(): one bin per calendar month from the first to the
\* last month of the data, labelled with the month's last calendar day and
\* holding the last observation of the bin, missing when the bin is empty
MonthBins(s) ==
    LET first == s[1].date.ym
        last == s[Len(s)].date.ym
    IN  [i \in 1..(last - first + 1) |->
            LET ym == first + i - 1
                inbin == SelectSeq(s, LAMBDA o : o.date.ym = ym)
            IN  IF inbin = <<>> THEN Missing(Date(ym, MonthEndDay(ym)))
                ELSE Obs(Date(ym, MonthEndDay(ym)), inbin[Len(inbin)].price)]

month_end_series(series) ==
    LET s == DropNa(series)
    IN  IF s = <<>> THEN s
        ELSE DropNa(MonthBins(SortByDate(s)))

\* total_return with the length test off by one: <= for <
total_return_le(monthly_prices, months, skip_last) ==
    LET needed == months + 1 + skip_last
        n == Len(monthly_prices)
    IN  IF n <= needed THEN NaN
        ELSE LET end == monthly_prices[n - skip_last].price
                 start == monthly_prices[n - skip_last - months].price
             IN  FSub1(FDiv(end, start))

total_return(monthly_prices, months, skip_last) ==
    LET needed == months + 1 + skip_last
        n == Len(monthly_prices)
    IN  IF n < needed THEN NaN
        ELSE LET end == monthly_prices[n - skip_last].price
                 start == monthly_prices[n - skip_last - months].price
             IN  FSub1(FDiv(end, start))

\* fmt_pct: "n/a" for NaN and the infinities, otherwise x * 100 with two
\* decimals, kept as the integer bp = round-half-even(x * 10000)
fmt_pct(x) ==
    IF IsNaN(x) \/ IsInf(x) THEN [na |-> TRUE, bp |-> 0]
    ELSE LET num == x.n * 10000
             q == num \div x.d
             r == num - q * x.d
         IN  [na |-> FALSE,
              bp |-> IF 2 * r < x.d THEN q
                     ELSE IF 2 * r > x.d THEN q + 1
                     ELSE IF q % 2 = 0 THEN q ELSE q + 1]

----------------------------------------------------------------------------
(* The provider's table.  A frame is [empty, multi, columns, cells]:       *)
(* columns is the sequence of (level-0) column names, cells[c] the         *)
(* sequence of [ticker, series] under column c (one entry when the frame   *)
(* has plain columns).                                                     *)

InSeq(x, s) == \E i \in 1..Len(s) : s[i] = x

extract_price_series(data, preferred, ticker) ==
    LET key == IF InSeq(preferred, data.columns) THEN preferred
               ELSE IF InSeq("Close", data.columns) THEN "Close"
               ELSE data.columns[1]
        tmp == data.cells[key]
    IN  IF data.multi
        THEN IF \E i \in 1..Len(tmp) : tmp[i].ticker = ticker
             THEN tmp[CHOOSE i \in 1..Len(tmp) : tmp[i].ticker = ticker].series
             ELSE tmp[1].series
        ELSE tmp[1].series

----------------------------------------------------------------------------
(* sorted(..., key=score, reverse=True) as CPython's list.sort runs it on  *)
(* a list shorter than 64: reverse, find the leading run, reverse it if it *)
(* is strictly descending, binary-insert the rest, reverse again.          *)

RECURSIVE Reverse(_)
Reverse(s) == IF s = <<>> THEN <<>>
              ELSE Append(Reverse(SubSeq(s, 2, Len(s))), s[1])

KeyLt(x, y) == FLt(x.score, y.score)

\* the length of the run with which s (Len(s) >= 2) starts, n elements in
RECURSIVE RunLength(_, _, _)
RunLength(s, n, descending) ==
    IF n = Len(s) THEN n
    ELSE IF KeyLt(s[n + 1], s[n]) = descending
         THEN RunLength(s, n + 1, descending)
         ELSE n

\* binarysort's search for the pivot's place in s[l+1..r] (0-based l, r)
RECURSIVE Bisect(_, _, _, _)
Bisect(s, pivot, l, r) ==
    IF l >= r THEN l
    ELSE LET p == l + ((r - l) \div 2)
         IN  IF KeyLt(pivot, s[p + 1]) THEN Bisect(s, pivot, l, p)
             ELSE Bisect(s, pivot, p + 1, r)

\* binarysort: s[1..start-1] is taken as sorted, the rest is inserted
RECURSIVE BinarySort(_, _)
BinarySort(s, start) ==
    IF start > Len(s) THEN s
    ELSE LET pivot == s[start]
             l == Bisect(s, pivot, 0, start - 1)
             moved == SubSeq(s, 1, l) \o <<pivot>> \o SubSeq(s, l + 1, start - 1)
                      \o SubSeq(s, start + 1, Len(s))
         IN  BinarySort(moved, start + 1)

ListSort(s) ==
    IF Len(s) < 2 THEN s
    ELSE LET descending == KeyLt(s[2], s[1])
             n == RunLength(s, 2, descending)
             run == IF descending THEN Reverse(SubSeq(s, 1, n)) ELSE SubSeq(s, 1, n)
         IN  BinarySort(run \o SubSeq(s, n + 1, Len(s)), n + 1)

SortedReverse(items) == Reverse(ListSort(Reverse(items)))

----------------------------------------------------------------------------
(* The momentum score and the decision *)

LookbackLong == 12
SkipLong == 1
LookbackShort == 6
SkipShort == 0

\* the blend with an undefined return counted as zero
MetricsNaNAsZero(series) ==
    LET r12_1 == total_return(series, LookbackLong, SkipLong)
        r6 == total_return(series, LookbackShort, SkipShort)
        z(x) == IF IsNaN(x) THEN Fin(0, 1) ELSE x
    IN  [r12_1 |-> r12_1, r6 |-> r6, score |-> FAdd(FHalf(z(r12_1)), FHalf(z(r6)))]

\* one iteration of the scoring loop: r12_1, r6 and their blend
Metrics(series) ==
    LET r12_1 == total_return(series, LookbackLong, SkipLong)
        r6 == total_return(series, LookbackShort, SkipShort)
    IN  [r12_1 |-> r12_1, r6 |-> r6, score |-> FAdd(FHalf(r12_1), FHalf(r6))]

\* sorted(((n, details[n]['score']) for n in risk_assets), ..., reverse=True)
Ranked(risk, det) ==
    SortedReverse([i \in 1..Len(risk) |->
                      [name |-> risk[i], score |-> det[risk[i]].score]])

\* the risk-off condition with < for <=
RiskOffStrict(top_score, thr) == IsNaN(top_score) \/ FLt(top_score, thr)

\* the risk-off condition without the NaN test
RiskOffNoNaNTest(top_score, thr) == FLe(top_score, thr)

\* the condition of the risk-off branch
RiskOff(top_score, thr) == IsNaN(top_score) \/ FLe(top_score, thr)

Decision(top, thr, bonds) ==
    IF RiskOff(top.score, thr)
    THEN [choice |-> bonds, regime |-> "RISK-OFF", name |-> top.name,
          score |-> fmt_pct(top.score), threshold |-> fmt_pct(thr)]
    ELSE [choice |-> top.name, regime |-> "RISK-ON", name |-> top.name,
          score |-> fmt_pct(top.score), threshold |-> fmt_pct(thr)]

\* one line of the report: the three percentages and the month-end date
ReportLine(n, det, dates) ==
    [name |-> n, score |-> fmt_pct(det[n].score), r12_1 |-> fmt_pct(det[n].r12_1),
     r6 |-> fmt_pct(det[n].r6), me |-> dates[n]]

Message(rk, det, dates, bonds, ch, why) ==
    [ranking |-> [i \in 1..Len(rk) |-> ReportLine(rk[i].name, det, dates)],
     bonds |-> ReportLine(bonds, det, dates),
     decision |-> ch,
     reason |-> why]

----------------------------------------------------------------------------
(* The environment of a run *)

Unset == [set |-> FALSE, ok |-> TRUE]
Bad == [set |-> TRUE, ok |-> FALSE]
Given(v) == [set |-> TRUE, ok |-> TRUE, val |-> v]

T(name) == [name |-> name, ticker |-> name]

TickersEnv == {Unset, Bad, Given(<<T("A"), T("BONDS")>>),
               Given(<<T("A"), T("B"), T("BONDS")>>)}
RiskEnv == {Unset, Bad, Given(<<"A">>), Given(<<"B">>), Given(<<"A", "B">>),
            Given(<<"B", "A">>)}
BondsEnv == {Unset, Given("B")}
ThresholdEnv == {Unset, Bad, Given(Fin(1, 2))}

Names(tk) == {tk[i].name : i \in 1..Len(tk)}

\* load_env_json with its default
Loaded(e, default) == IF e.set THEN e.val ELSE default

----------------------------------------------------------------------------
(* The price provider.  A history of n months has two trading days a month *)
(* (day 1 and day 2); its month-i prices are level + 1 and level, where    *)
(* the level is a for the months 7 or more before the last, b for the six  *)
(* months before the last, and c for the last month.                       *)

Level(i, h) == IF h.n - i >= 7 THEN h.a ELSE IF h.n - i >= 1 THEN h.b ELSE h.c

Daily(h) ==
    [j \in 1..(2 * h.n) |->
        LET i == (j + 1) \div 2
        IN  IF j % 2 = 1 THEN Obs(Date(i, 1), Level(i, h) + 1)
            ELSE Obs(Date(i, 2), Level(i, h))]

H(n, a, b, c) == [n |-> n, a |-> a, b |-> b, c |-> c]

Histories ==
    {H(14, 1, 1, 1), H(14, 1, 2, 2), H(14, 1, 1, 2), H(14, 2, 1, 1),
     H(14, 0, 1, 1), H(14, 0, 0, 1), H(14, 0, 0 - 1, 0 - 1),
     H(13, 1, 2, 2), H(15, 1, 2, 3), H(6, 1, 1, 2)}

AllMissing == <<Missing(Date(1, 1)), Missing(Date(1, 2))>>

EmptyFrame == [empty |-> TRUE, multi |-> FALSE, columns |-> <<>>, cells |-> <<>>]

Col(ticker, s) == <<[ticker |-> ticker, series |-> s]>>

\* plain columns: the adjusted close holds the history
PlainFrame(s) ==
    [empty |-> FALSE, multi |-> FALSE, columns |-> <<"Adj Close", "Close">>,
     cells |-> [c \in {"Adj Close", "Close"} |->
                   IF c = "Adj Close" THEN Col("", s) ELSE Col("", AllMissing)]]

\* no adjusted close: the close holds the history
CloseFrame(s) ==
    [empty |-> FALSE, multi |-> FALSE, columns |-> <<"Open", "Close">>,
     cells |-> [c \in {"Open", "Close"} |->
                   IF c = "Close" THEN Col("", s) ELSE Col("", AllMissing)]]

\* two-level columns (price, ticker)
MultiFrame(ticker, s) ==
    [empty |-> FALSE, multi |-> TRUE, columns |-> <<"Adj Close", "Close">>,
     cells |-> [c \in {"Adj Close", "Close"} |->
                   IF c = "Adj Close"
                   THEN <<[ticker |-> "other", series |-> AllMissing],
                          [ticker |-> ticker, series |-> s]>>
                   ELSE Col(ticker, AllMissing)]]

\* yf.download(ticker, ...)
Download(ticker) ==
    {EmptyFrame, PlainFrame(AllMissing)}
    \cup {PlainFrame(Daily(h)) : h \in Histories}
    \cup {CloseFrame(Daily(H(14, 1, 2, 2))), MultiFrame(ticker, Daily(H(14, 2, 1, 1)))}

----------------------------------------------------------------------------
(* main() *)

NoFn == [x \in {} |-> 0]
NoDecision == [choice |-> "", regime |-> ""]

\* nothing ranked, decided, written or exited yet
Undecided ==
    /\ ranked = <<>>
    /\ choice = ""
    /\ regime = NoDecision
    /\ report = <<>>
    /\ exit_code = 0 - 1

\* main() has not started
NotLoaded ==
    /\ tickers = <<>>
    /\ risk_assets = <<>>
    /\ bonds_name = ""
    /\ threshold = Fin(0, 1)
    /\ fetched = <<>>
    /\ monthly = NoFn
    /\ last_me_date = NoFn
    /\ details = NoFn
    /\ Undecided

Init ==
    /\ pc = "load"
    /\ env \in [tickers : TickersEnv, risk_assets : RiskEnv,
                bonds_name : BondsEnv, threshold : ThresholdEnv]
    /\ NotLoaded
    /\ arg = <<>>
    /\ res = <<>>

Exit(code) ==
    /\ pc' = "exit"
    /\ exit_code' = code

\* lines 94-98: a variable that is not JSON exits with 2, a threshold that
\* is not a number raises
LoadConfig ==
    /\ pc = "load"
    /\ IF ~env.tickers.ok \/ ~env.risk_assets.ok
       THEN /\ Exit(2)
            /\ UNCHANGED <<tickers, risk_assets, bonds_name, threshold>>
       ELSE IF ~env.threshold.ok
       THEN /\ Exit(1)
            /\ UNCHANGED <<tickers, risk_assets, bonds_name, threshold>>
       ELSE /\ tickers' = Loaded(env.tickers, <<>>)
            /\ risk_assets' = Loaded(env.risk_assets, <<>>)
            /\ bonds_name' = Loaded(env.bonds_name, "BONDS")
            /\ threshold' = Loaded(env.threshold, Fin(0, 1))
            /\ pc' = "validate"
            /\ UNCHANGED exit_code
    /\ UNCHANGED <<env, fetched, monthly, last_me_date, details, ranked, choice,
                   regime, report, arg, res>>

\* the checks without the one on the safe-haven name
ConfigErrorNoBonds(tk, risk, bonds) ==
    tk = <<>> \/ risk = <<>>

\* the three checks of lines 100-108
ConfigError(tk, risk, bonds) ==
    tk = <<>> \/ risk = <<>> \/ bonds \notin Names(tk)

\* lines 100-108
ValidateConfig ==
    /\ pc = "validate"
    /\ IF ConfigError(tickers, risk_assets, bonds_name)
       THEN Exit(2)
       ELSE /\ pc' = "fetch"
            /\ UNCHANGED exit_code
    /\ UNCHANGED <<env, tickers, risk_assets, bonds_name, threshold, fetched,
                   monthly, last_me_date, details, ranked, choice, regime,
                   report, arg, res>>

\* the download loop going on to the next ticker when one has no data
FetchAssetContinue ==
    /\ pc = "fetch"
    /\ LET t == tickers[Len(fetched) + 1]
           more == IF Len(fetched) + 1 = Len(tickers) THEN "score" ELSE "fetch"
       IN  \E data \in Download(t.ticker) :
              IF data.empty
              THEN /\ fetched' = Append(fetched, [name |-> t.name, empty |-> TRUE,
                                                  no_month_end |-> TRUE])
                   /\ pc' = more
                   /\ UNCHANGED <<monthly, last_me_date, exit_code>>
              ELSE LET me == month_end_series(
                                extract_price_series(data, "Adj Close", t.ticker))
                   IN  /\ fetched' = Append(fetched, [name |-> t.name, empty |-> FALSE,
                                                      no_month_end |-> me = <<>>])
                       /\ pc' = more
                       /\ UNCHANGED exit_code
                       /\ IF me = <<>>
                          THEN UNCHANGED <<monthly, last_me_date>>
                          ELSE /\ monthly' = (t.name :> me) @@ monthly
                               /\ last_me_date' =
                                      (t.name :> me[Len(me)].date) @@ last_me_date
    /\ UNCHANGED <<env, tickers, risk_assets, bonds_name, threshold, details,
                   ranked, choice, regime, report, arg, res>>

\* lines 116-134: one iteration of the download loop.  fetched logs each
\* download: whether the table was empty and whether its month-end series was
FetchAsset ==
    /\ pc = "fetch"
    /\ LET t == tickers[Len(fetched) + 1]
       IN  \E data \in Download(t.ticker) :
              IF data.empty
              THEN /\ fetched' = Append(fetched, [name |-> t.name, empty |-> TRUE,
                                                  no_month_end |-> TRUE])
                   /\ Exit(2)
                   /\ UNCHANGED <<monthly, last_me_date>>
              ELSE LET me == month_end_series(
                                extract_price_series(data, "Adj Close", t.ticker))
                   IN  /\ fetched' = Append(fetched, [name |-> t.name, empty |-> FALSE,
                                                      no_month_end |-> me = <<>>])
                       /\ IF me = <<>>
                          THEN /\ Exit(2)
                               /\ UNCHANGED <<monthly, last_me_date>>
                          ELSE /\ monthly' = (t.name :> me) @@ monthly
                               /\ last_me_date' =
                                      (t.name :> me[Len(me)].date) @@ last_me_date
                               /\ pc' = IF Len(fetched) + 1 = Len(tickers)
                                        THEN "score" ELSE "fetch"
                               /\ UNCHANGED exit_code
    /\ UNCHANGED <<env, tickers, risk_assets, bonds_name, threshold, details,
                   ranked, choice, regime, report, arg, res>>

\* lines 137-151
ComputeScores ==
    /\ pc = "score"
    /\ details' = [n \in DOMAIN monthly |-> Metrics(monthly[n])]
    /\ pc' = "rank"
    /\ UNCHANGED <<env, tickers, risk_assets, bonds_name, threshold, fetched,
                   monthly, last_me_date, ranked, choice, regime, report,
                   exit_code, arg, res>>

\* lines 153-161; a risk asset that is no ticker raises KeyError
RankAndDecide ==
    /\ pc = "rank"
    /\ IF \E i \in 1..Len(risk_assets) : risk_assets[i] \notin DOMAIN details
       THEN /\ Exit(1)
            /\ UNCHANGED <<ranked, choice, regime>>
       ELSE LET rk == Ranked(risk_assets, details)
                dec == Decision(rk[1], threshold, bonds_name)
            IN  /\ ranked' = rk
                /\ choice' = dec.choice
                /\ regime' = dec
                /\ pc' = "report"
                /\ UNCHANGED exit_code
    /\ UNCHANGED <<env, tickers, risk_assets, bonds_name, threshold, fetched,
                   monthly, last_me_date, details, report, arg, res>>

\* lines 163-189
WriteReport ==
    /\ pc = "report"
    /\ report' = <<Message(ranked, details, last_me_date, bonds_name, choice, regime)>>
    /\ pc' = "exit"
    /\ exit_code' = 0
    /\ UNCHANGED <<env, tickers, risk_assets, bonds_name, threshold, fetched,
                   monthly, last_me_date, details, ranked, choice, regime,
                   arg, res>>

Next ==
    \/ LoadConfig
    \/ ValidateConfig
    \/ FetchAsset
    \/ ComputeScores
    \/ RankAndDecide
    \/ WriteReport

Spec == Init /\ [][Next]_vars

----------------------------------------------------------------------------
(* total_return on its own: every month-end series of up to MaxLen prices  *)
(* in 0..MaxPrice, every months in 1..MaxMonths, skip_last in 0..MaxSkip.  *)

MaxLen == 4
MaxPrice == 2
MaxMonths == 2
MaxSkip == 1

\* the sequences over S of length at most n
RECURSIVE SeqsUpTo(_, _)
SeqsUpTo(S, n) ==
    IF n = 0 THEN {<<>>}
    ELSE LET shorter == SeqsUpTo(S, n - 1)
         IN  shorter \cup {Append(s, x) : s \in {q \in shorter : Len(q) = n - 1}, x \in S}

MonthEnds(prices) ==
    [i \in 1..Len(prices) |-> Obs(Date(i, MonthEndDay(i)), prices[i])]

NoEnv == [tickers |-> Unset, risk_assets |-> Unset, bonds_name |-> Unset,
          threshold |-> Unset]

InitTR ==
    /\ pc = "call_total_return"
    /\ arg \in {[series |-> MonthEnds(p), months |-> m, skip_last |-> k] :
                   p \in SeqsUpTo(0..MaxPrice, MaxLen), m \in 1..MaxMonths,
                   k \in 0..MaxSkip}
    /\ res = <<>>
    /\ env = NoEnv
    /\ NotLoaded

CallTotalReturn ==
    /\ pc = "call_total_return"
    /\ res' = <<total_return(arg.series, arg.months, arg.skip_last)>>
    /\ pc' = "returned_total_return"
    /\ UNCHANGED arg
    /\ UNCHANGED mainVars

SpecTR == InitTR /\ [][CallTotalReturn]_vars

----------------------------------------------------------------------------
(* month_end_series on its own: every daily series of up to MaxObs         *)
(* observations, in any order and with repeated dates, on the days         *)
(* ObsDates, each with a price in 1..MaxPrice or a missing price.          *)

MaxObs == 3

ObsDates == {Date(1, 30), Date(1, 31), Date(2, 15), Date(3, 2)}

DailyObs == {Obs(d, p) : d \in ObsDates, p \in 1..MaxPrice}
            \cup {Missing(d) : d \in ObsDates}

InitME ==
    /\ pc = "call_month_end_series"
    /\ arg \in {[series |-> s] : s \in SeqsUpTo(DailyObs, MaxObs)}
    /\ res = <<>>
    /\ env = NoEnv
    /\ NotLoaded

CallMonthEndSeries ==
    /\ pc = "call_month_end_series"
    /\ res' = <<month_end_series(arg.series)>>
    /\ pc' = "returned_month_end_series"
    /\ UNCHANGED arg
    /\ UNCHANGED mainVars

SpecME == InitME /\ [][CallMonthEndSeries]_vars

----------------------------------------------------------------------------
(* The ranking on its own: main() after its download loop, with up to      *)
(* MaxRisk risk assets, each with a history too short to score, a flat     *)
(* history (score 0) or a doubling one (score 1).                          *)

MaxRisk == 7

RiskNames == <<"R1", "R2", "R3", "R4", "R5", "R6", "R7", "R8", "R9">>

RankHistories == {H(13, 1, 1, 1), H(14, 1, 1, 1), H(14, 1, 2, 4)}

InitRank ==
    /\ pc = "score"
    /\ \E n \in 1..MaxRisk :
          /\ risk_assets = SubSeq(RiskNames, 1, n)
          /\ tickers = [i \in 1..(n + 1) |->
                           IF i <= n THEN T(RiskNames[i]) ELSE T("BONDS")]
    /\ env = [tickers |-> Given(tickers), risk_assets |-> Given(risk_assets),
              bonds_name |-> Unset, threshold |-> Unset]
    /\ bonds_name = "BONDS"
    /\ threshold = Fin(0, 1)
    /\ fetched = [i \in 1..Len(tickers) |->
                     [name |-> tickers[i].name, empty |-> FALSE, no_month_end |-> FALSE]]
    /\ \E hist \in [Names(tickers) -> RankHistories] :
          /\ hist["BONDS"] = H(14, 1, 1, 1)
          /\ monthly = [n \in Names(tickers) |-> month_end_series(Daily(hist[n]))]
    /\ last_me_date = [n \in Names(tickers) |-> monthly[n][Len(monthly[n])].date]
    /\ details = NoFn
    /\ Undecided
    /\ arg = <<>>
    /\ res = <<>>

NextRank ==
    \/ ComputeScores
    \/ RankAndDecide
    \/ WriteReport

SpecRank == InitRank /\ [][NextRank]_vars

----------------------------------------------------------------------------
(* Properties of main(), checked under Spec *)

\* main() has ranked the risk assets and taken its decision
Decided == ranked # <<>>

\* the report file exists
Written == report # <<>>

\* x <= y for finite x and y, by cross-multiplication
RationalLeq(x, y) == x.n * y.d <= y.n * x.d

\* C1: when the top-ranked score is finite, the decision is risk-off, and the
\* choice the safe haven, exactly when that score is <= the threshold; it is
\* risk-on, and the choice the top-ranked asset, otherwise.
C1_ThresholdRule ==
    Decided /\ IsFinite(ranked[1].score) =>
        /\ regime.regime = "RISK-OFF" <=> RationalLeq(ranked[1].score, threshold)
        /\ regime.regime = "RISK-ON" <=> ~RationalLeq(ranked[1].score, threshold)
        /\ regime.regime = "RISK-OFF" => choice = bonds_name
        /\ regime.regime = "RISK-ON" => choice = ranked[1].name

\* C1's boundary: a finite top score equal to the threshold went risk-off
C1_Witness ==
    /\ Decided
    /\ IsFinite(ranked[1].score)
    /\ ranked[1].score = threshold
    /\ ranked[1].name # bonds_name
    /\ choice = bonds_name

\* C2: a top-ranked score that is NaN, +infinity or -infinity always gives a
\* risk-off decision for the safe haven.
C2_NonFiniteIsRiskOff ==
    Decided /\ ~IsFinite(ranked[1].score) =>
        regime.regime = "RISK-OFF" /\ choice = bonds_name

\* C4: the report is written only when every configured asset was downloaded
\* with data and a month-end series; a download without data, or without a
\* month-end series, ends the run with status 2 and no report.
C4_ReportNeedsAllData ==
    /\ Written =>
          /\ Len(fetched) = Len(tickers)
          /\ \A i \in 1..Len(fetched) :
                /\ fetched[i].name = tickers[i].name
                /\ ~fetched[i].empty
                /\ ~fetched[i].no_month_end
                /\ fetched[i].name \in DOMAIN monthly
                /\ monthly[fetched[i].name] # <<>>
    /\ (\E i \in 1..Len(fetched) : fetched[i].empty \/ fetched[i].no_month_end) =>
          pc = "exit" /\ exit_code = 2 /\ ~Written /\ ~Decided

\* C4's case: the first download had data, a later one had data but no
\* month-end series, and the run ended without a report
C4_Witness ==
    /\ Len(fetched) >= 2
    /\ ~fetched[1].empty /\ ~fetched[1].no_month_end
    /\ ~fetched[Len(fetched)].empty /\ fetched[Len(fetched)].no_month_end
    /\ pc = "exit" /\ exit_code = 2 /\ ~Written

\* C5 as stated: a run whose top-ranked score is undefined ends in failure
\* without a report.
C5_UndefinedTopIsFatal ==
    pc = "exit" /\ Decided /\ IsNaN(ranked[1].score) =>
        exit_code # 0 /\ ~Written

\* every risk asset is a configured ticker
RiskConfigured == \A i \in 1..Len(risk_assets) : risk_assets[i] \in Names(tickers)

\* C5 amended: an undefined top-ranked score is not fatal: the decision is
\* risk-off for the safe haven and the report is written; no undefined score
\* of a risk asset, top-ranked or not, ends the run in failure, and each is
\* rendered "n/a" in the report.
C5_UndefinedTopIsRiskOff ==
    /\ Decided /\ IsNaN(ranked[1].score) =>
          /\ regime.regime = "RISK-OFF"
          /\ choice = bonds_name
          /\ pc = "exit" => exit_code = 0 /\ Written
    /\ pc = "exit" /\ details # NoFn /\ RiskConfigured =>
          exit_code = 0 /\ Written
    /\ Written =>
          \A i \in 1..Len(report[1].ranking) :
             LET line == report[1].ranking[i]
             IN  /\ line.name = ranked[i].name
                 /\ IsNaN(details[line.name].score) => line.score.na

\* C5's case: the report was written with an undefined top-ranked score
\* while another risk asset had a defined one
C5_Witness ==
    /\ Written
    /\ exit_code = 0
    /\ IsNaN(ranked[1].score)
    /\ \E i \in 2..Len(ranked) : IsFinite(ranked[i].score)

\* the configuration main() loaded is the environment's, with the defaults
EnvTickers == Loaded(env.tickers, <<>>)
EnvRisk == Loaded(env.risk_assets, <<>>)
EnvBonds == Loaded(env.bonds_name, "BONDS")

EnvParses == env.tickers.ok /\ env.risk_assets.ok /\ env.threshold.ok

\* C6: with no tickers, no risk assets or a safe-haven name that is no
\* ticker, main() exits with status 2 and nothing is downloaded or written;
\* a download happens only after all three checks passed.
C6_NoFetchOnBadConfig ==
    /\ EnvParses /\ (EnvTickers = <<>> \/ EnvRisk = <<>>
                     \/ ~(\E i \in 1..Len(EnvTickers) : EnvTickers[i].name = EnvBonds)) =>
          /\ fetched = <<>>
          /\ ~Written
          /\ pc \in {"load", "validate", "exit"}
          /\ pc = "exit" => exit_code = 2
    /\ fetched # <<>> =>
          /\ EnvParses
          /\ EnvTickers # <<>>
          /\ EnvRisk # <<>>
          /\ \E i \in 1..Len(EnvTickers) : EnvTickers[i].name = EnvBonds

\* C6's case: tickers and risk assets are given, the safe-haven name is no
\* ticker, and main() has exited
C6_Witness ==
    /\ EnvParses
    /\ EnvTickers # <<>>
    /\ EnvRisk # <<>>
    /\ ~(\E i \in 1..Len(EnvTickers) : EnvTickers[i].name = EnvBonds)
    /\ pc = "exit"
    /\ exit_code = 2
    /\ fetched = <<>>

\* C9: each asset's r12_1 and r6 are the 12-month return skipping one month
\* and the 6-month return; the score is undefined when either is (so with
\* fewer than 14 month-end points), and half their sum when both are finite:
\* for positive prices p, (p[L-1]/p[L-13] + p[L]/p[L-6] - 2) / 2.
C9_ScoreBlend ==
    \A a \in DOMAIN details :
       LET s == monthly[a]
           L == Len(s)
           m == details[a]
       IN  /\ L < 14 => IsNaN(m.score) /\ IsNaN(m.r12_1)
           /\ L < 7 => IsNaN(m.r6)
           /\ IsNaN(m.r12_1) \/ IsNaN(m.r6) => IsNaN(m.score)
           /\ IsFinite(m.r12_1) /\ IsFinite(m.r6) =>
                 /\ IsFinite(m.score)
                 /\ 2 * m.score.n * m.r12_1.d * m.r6.d
                       = (m.r12_1.n * m.r6.d + m.r6.n * m.r12_1.d) * m.score.d
           /\ L >= 14 /\ (\A i \in 1..L : s[i].price > 0) =>
                 LET e1 == s[L - 1].price
                     s1 == s[L - 13].price
                     e2 == s[L].price
                     s2 == s[L - 6].price
                 IN  /\ IsFinite(m.score)
                     /\ m.score.n * 2 * s1 * s2
                           = (e1 * s2 + e2 * s1 - 2 * s1 * s2) * m.score.d

\* C9's case: one asset with 13 month-end points has a 6-month return and no
\* score, another has a finite non-zero score
C9_Witness ==
    /\ \E a \in DOMAIN details :
          Len(monthly[a]) = 13 /\ IsFinite(details[a].r6) /\ IsNaN(details[a].score)
    /\ \E a \in DOMAIN details :
          IsFinite(details[a].score) /\ details[a].score.n # 0

----------------------------------------------------------------------------
(* Properties of the ranking, checked under SpecRank *)

\* C3: the ranking lists the defined scores first, in descending order, and
\* the undefined ones last, so that its first entry has the greatest defined
\* score whenever some risk asset has a defined score.
C3_UndefinedRankLast ==
    Decided =>
        /\ \A i, j \in 1..Len(ranked) :
              i < j =>
                 /\ IsNaN(ranked[i].score) => IsNaN(ranked[j].score)
                 /\ ~FLt(ranked[i].score, ranked[j].score)
        /\ (\E i \in 1..Len(ranked) : ~IsNaN(ranked[i].score)) =>
              /\ ~IsNaN(ranked[1].score)
              /\ \A i \in 1..Len(ranked) : ~FLt(ranked[1].score, ranked[i].score)

\* the place of a risk asset in risk_assets
Place(name) == CHOOSE i \in 1..Len(risk_assets) : risk_assets[i] = name

\* C10: risk assets with the same defined score are ranked in their order in
\* risk_assets, so the first-listed of the assets tied for the top is
\* ranked[0] and is the asset the decision names.
C10_TiesKeepInputOrder ==
    Decided =>
        /\ \A i, j \in 1..Len(ranked) :
              i < j /\ ~IsNaN(ranked[i].score) /\ ranked[i].score = ranked[j].score
                 => Place(ranked[i].name) < Place(ranked[j].name)
        /\ regime.name = ranked[1].name

----------------------------------------------------------------------------
(* Properties of total_return, checked under SpecTR *)

\* C7: for positive prices, total_return is undefined exactly when the series
\* has fewer than months + 1 + skip_last points, and is otherwise
\* end/start - 1, end being the price skip_last places before the last and
\* start the price months places before that.
C7_TotalReturn ==
    pc = "returned_total_return"
       /\ (\A i \in 1..Len(arg.series) : arg.series[i].price > 0) =>
        LET s == arg.series
            L == Len(s)
            m == arg.months
            k == arg.skip_last
            r == res[1]
        IN  /\ IsNaN(r) <=> L < m + 1 + k
            /\ L >= m + 1 + k =>
                  /\ IsFinite(r)
                  /\ r.n * s[L - k - m].price
                        = (s[L - k].price - s[L - k - m].price) * r.d

\* C7's case: a series of exactly months + 1 + skip_last positive prices,
\* with a skipped month, returned a defined non-zero value
C7_Witness ==
    /\ pc = "returned_total_return"
    /\ \A i \in 1..Len(arg.series) : arg.series[i].price > 0
    /\ Len(arg.series) = arg.months + 1 + arg.skip_last
    /\ arg.skip_last = 1
    /\ IsFinite(res[1])
    /\ res[1].n # 0

----------------------------------------------------------------------------
(* Properties of month_end_series, checked under SpecME *)

\* the observations of s with a price, in the calendar month ym
Priced(s, ym) == {i \in 1..Len(s) : ~s[i].isna /\ s[i].date.ym = ym}

\* those of them on the latest such day
Latest(s, ym) ==
    {i \in Priced(s, ym) : \A j \in Priced(s, ym) : ~DateLt(s[i].date, s[j].date)}

\* what C8 and its amendment share: the output has no missing price, is
\* strictly ascending with one entry a month, has exactly the months in which
\* the input has a price, and is empty when the input has none
MonthEndShape(in, out) ==
    /\ \A i \in 1..Len(out) : ~out[i].isna
    /\ \A i, j \in 1..Len(out) : i < j => out[i].date.ym < out[j].date.ym
    /\ {out[i].date.ym : i \in 1..Len(out)}
          = {in[i].date.ym : i \in {j \in 1..Len(in) : ~in[j].isna}}
    /\ (\A i \in 1..Len(in) : in[i].isna) => out = <<>>

\* C8 as stated: each month's output is the observation, date and price, with
\* the latest date among the month's observations that have a price.
C8_KeepsLatestObservation ==
    pc = "returned_month_end_series" =>
        /\ MonthEndShape(arg.series, res[1])
        /\ \A i \in 1..Len(res[1]) :
              \E j \in Latest(arg.series, res[1][i].date.ym) :
                 /\ res[1][i].date = arg.series[j].date
                 /\ res[1][i].price = arg.series[j].price

\* C8 amended: each month's output carries the price of the observation with
\* the latest date among the month's observations that have a price (the last
\* of them in the input when the date repeats), dated the last calendar day
\* of that month.
C8_KeepsLatestPrice ==
    pc = "returned_month_end_series" =>
        /\ MonthEndShape(arg.series, res[1])
        /\ \A i \in 1..Len(res[1]) :
              LET ym == res[1][i].date.ym
                  late == Latest(arg.series, ym)
                  j == CHOOSE x \in late : \A y \in late : y <= x
              IN  /\ res[1][i].date = Date(ym, MonthEndDay(ym))
                  /\ res[1][i].price = arg.series[j].price

\* C8's case: the latest observation of a month has no price, an earlier one
\* of that month with a price comes after a later month's in the input, and
\* the output has the two months, the first with the earlier price
C8_Witness ==
    /\ pc = "returned_month_end_series"
    /\ Len(arg.series) = 3
    /\ arg.series[1].date.ym = 3 /\ ~arg.series[1].isna
    /\ arg.series[2] = Missing(Date(1, 31))
    /\ arg.series[3].date = Date(1, 30) /\ ~arg.series[3].isna
    /\ Len(res[1]) = 2
    /\ res[1][1].price = arg.series[3].price
    /\ res[1][1].price # res[1][2].price

====
